---------------------------- MODULE Spec2Model ----------------------------
(***************************************************************************)
(* A model of the browser-driving core of the wikiart scraper              *)
(* (src/common.py): the request filter intercept_route, the navigation     *)
(* controller safe_goto and the expansion loop load_all_artworks.          *)
(*                                                                         *)
(* Each coroutine is a state machine whose program counter stops at every  *)
(* awaited driver call.  The browser driver (Playwright) is the            *)
(* environment: the outcome of each awaited call is a nondeterministic     *)
(* choice.  Variables that only record what has happened (the log of goto  *)
(* calls, the counters of clicks and scrolls) are history variables.       *)
(***************************************************************************)
EXTENDS Integers, Sequences, FiniteSets

VARIABLES
    \* ---- intercept_route: one Route/Request Event and the task handling it
    route,      \* the event: [resource_type, url]
    fault,      \* which attribute read raises for this event ("none" if none)
    fpc,        \* position of the intercept_route task
    resolved,   \* the resolutions issued on the event, in order
    ferr,       \* the attribute whose read raised out of the task, or "none"
    tasks,      \* intercept_route tasks created for the event and not yet started
    \* ---- safe_goto
    calls,      \* number of safe_goto calls made on the page so far
    url,        \* argument url
    retries,    \* argument retries
    delay,      \* argument delay
    gpc,        \* position of the safe_goto coroutine
    attempt,    \* the loop variable of line 30
    gotos,      \* log of page.goto calls: [cond, timeout, attempt, outcome]
    routes,     \* number of page.route calls made
    sleeps,     \* log of asyncio.sleep durations
    gerr,       \* the error raised by the call, or NoError
    \* ---- load_all_artworks
    life0,      \* successful clicks the control survives (Forever: always back)
    life,       \* successful clicks still left before the control disappears
    visMode,    \* how the control answers is_visible during the call
    lpc,        \* position of the load_all_artworks coroutine
    i,          \* the loop variable of line 99
    visible,    \* the local variable visible
    clicks,     \* number of button.click calls issued
    clickFails, \* number of button.click calls that raised
    scrolls,    \* number of window.scrollBy evaluations
    lastWait,   \* duration of the latest asyncio.sleep, in tenths of a second
    lexc,       \* the step whose exception reached the outer handler, or "none"
    lret,       \* how the call ended: "running", "returned", "raised"
    \* ---- get_works_for_artist: the extraction of lines 160-228
    nodes,      \* the visible anchors found, each by its href attribute
    idx,        \* number of anchors the for loop of line 176 has taken
    seen_urls,  \* the set seen_urls
    art_works,  \* the list art_works: [url, link] (link: the href it came from)
    wkpc,       \* position of get_works_for_artist
    wkret,      \* the return statement taken: "none", 173, 224 or 228
    \* ---- main and the catalog-walking steps it calls
    mainpc,     \* position of main: "start", "loop", "finished", "crashed"
    stepFn,     \* the step function running, or "none" between steps
    spc,        \* position inside the step function
    pages,      \* number of page handles open
    pending,    \* the exception propagating out of the step, or "none"
    navFailed,  \* the steps in which a safe_goto call has raised
    result,     \* length of the list the step is about to return
    mvLeft,     \* movements the loop of line 289 has still to take
    arLeft,     \* artists the loop of line 292 has still to take
    wkLeft      \* art works the loop of line 294 has still to take

filterVars == <<route, fault, fpc, resolved, ferr, tasks>>
gotoVars   == <<calls, url, retries, delay, gpc, attempt, gotos, routes, sleeps,
                gerr>>
loadVars   == <<life0, life, visMode, lpc, i, visible, clicks, clickFails,
                scrolls, lastWait, lexc, lret>>
worksVars  == <<nodes, idx, seen_urls, art_works, wkpc, wkret>>
walkVars   == <<mainpc, stepFn, spc, pages, pending, navFailed, result,
                mvLeft, arLeft, wkLeft>>
vars       == <<filterVars, gotoVars, loadVars, worksVars, walkVars>>

-----------------------------------------------------------------------------
(***************************************************************************)
(* safe_goto(page, url, retries, delay)                                    *)
(***************************************************************************)

\* Largest retries argument explored (the default of the code is 3).
MaxRetries == 3

Urls == {"START_URL", "artist_url"}

\* retries is an int: zero and negative budgets are legal arguments.
RetriesValues == -1..MaxRetries

Delays == {2}

\* Outcome of one page.goto: settled, timed out, or failed at transport level.
\* The driver raises an Exception for both failures.
Outcomes == {"ok", "timeout", "transport"}

BASE_A == 5000

BASE_B == 5000

\* mutant: the timeout is divided by the attempt index
TimeoutA_Divided(a) == BASE_A \div a

\* timeout=5_000 * attempt with wait_until="domcontentloaded"
TimeoutA(a) == BASE_A * a

\* timeout=5_000 * attempt with wait_until="networkidle"
TimeoutB(a) == BASE_B * a

NoError == [type |-> "none", url |-> "none", retries |-> 0]

\* RuntimeError(f"Failed to load {url} after {retries} attempts")
NavigationError(u, r) == [type |-> "RuntimeError", url |-> u, retries |-> r]

\* mutant: the loop stops one attempt early
HasNextAttempt_OneShort(a, r) == a + 1 < r

\* mutant: the body runs once before the budget is tested
HasNextAttempt_DoWhile(a, r) == a = 0 \/ a + 1 <= r

\* for attempt in range(1, retries + 1): is there a next value after a?
HasNextAttempt(a, r) == a + 1 <= r

\* mutant: the return of line 34 is missing
AfterGotoA_NoReturn(outcome) == "routeB"

\* where control goes after the domcontentloaded goto
AfterGotoA(outcome) == IF outcome = "ok" THEN "returned" ELSE "routeB"

\* mutant: a settled networkidle goto is treated like a failed one
AfterGotoB_NoReturn(outcome, a, r) == IF a < r THEN "sleep" ELSE "for"

\* mutant: the sleep is not guarded by attempt < retries
AfterGotoB_AlwaysSleep(outcome, a, r) ==
    IF outcome = "ok" THEN "returned" ELSE "sleep"

\* where control goes after the networkidle goto (lines 41-45)
AfterGotoB(outcome, a, r) ==
    IF outcome = "ok" THEN "returned"
    ELSE IF a < r THEN "sleep" ELSE "for"

\* wait_until="networkidle" settles only when no request is in flight: an
\* intercepted request that has not been resolved keeps the network busy.
NetworkQuiet == tasks = 0 /\ fpc \in {"idle", "done"}

GotoCall(cond, t, a, o) ==
    [cond |-> cond, timeout |-> t, attempt |-> a, outcome |-> o]

InitGoto ==
    /\ calls = 1
    /\ url \in Urls
    /\ retries \in RetriesValues
    /\ delay \in Delays
    /\ gpc = "for"
    /\ attempt = 0
    /\ gotos = <<>>
    /\ routes = 0
    /\ sleeps = <<>>
    /\ gerr = NoError

IdleGoto ==
    /\ calls = 0
    /\ url = "START_URL"
    /\ retries = 0
    /\ delay = 2
    /\ gpc = "idle"
    /\ attempt = 0
    /\ gotos = <<>>
    /\ routes = 0
    /\ sleeps = <<>>
    /\ gerr = NoError

\* line 30: the for statement takes the next attempt or falls through to 46
ForAttempt ==
    /\ gpc = "for"
    /\ IF HasNextAttempt(attempt, retries)
         THEN attempt' = attempt + 1 /\ gpc' = "routeA"
         ELSE attempt' = attempt /\ gpc' = "raise"
    /\ UNCHANGED <<calls, url, retries, delay, gotos, routes, sleeps, gerr>>
    /\ UNCHANGED <<filterVars, loadVars, worksVars, walkVars>>

\* line 32: page.route("**/*", ...)
RouteA ==
    /\ gpc = "routeA"
    /\ routes' = routes + 1
    /\ gpc' = "gotoA"
    /\ UNCHANGED <<calls, url, retries, delay, attempt, gotos, sleeps, gerr>>
    /\ UNCHANGED <<filterVars, loadVars, worksVars, walkVars>>

\* lines 33-35: page.goto(url, wait_until="domcontentloaded", ...)
GotoA ==
    /\ gpc = "gotoA"
    /\ \E o \in Outcomes :
         /\ gotos' = Append(gotos,
                GotoCall("domcontentloaded", TimeoutA(attempt), attempt, o))
         /\ gpc' = AfterGotoA(o)
    /\ UNCHANGED <<calls, url, retries, delay, attempt, routes, sleeps, gerr>>
    /\ UNCHANGED <<filterVars, loadVars, worksVars, walkVars>>

\* line 39: page.route("**/*", ...) inside the handler of the first failure
RouteB ==
    /\ gpc = "routeB"
    /\ routes' = routes + 1
    /\ gpc' = "gotoB"
    /\ UNCHANGED <<calls, url, retries, delay, attempt, gotos, sleeps, gerr>>
    /\ UNCHANGED <<filterVars, loadVars, worksVars, walkVars>>

\* lines 40-44: page.goto(url, wait_until="networkidle", ...)
GotoB ==
    /\ gpc = "gotoB"
    /\ \E o \in Outcomes :
         /\ o = "ok" => NetworkQuiet
         /\ gotos' = Append(gotos,
                GotoCall("networkidle", TimeoutB(attempt), attempt, o))
         /\ gpc' = AfterGotoB(o, attempt, retries)
    /\ UNCHANGED <<calls, url, retries, delay, attempt, routes, sleeps, gerr>>
    /\ UNCHANGED <<filterVars, loadVars, worksVars, walkVars>>

\* line 45: asyncio.sleep(delay)
SleepDelay ==
    /\ gpc = "sleep"
    /\ sleeps' = Append(sleeps, delay)
    /\ gpc' = "for"
    /\ UNCHANGED <<calls, url, retries, delay, attempt, gotos, routes, gerr>>
    /\ UNCHANGED <<filterVars, loadVars, worksVars, walkVars>>

\* line 46: raise RuntimeError(...)
RaiseExhausted ==
    /\ gpc = "raise"
    /\ gerr' = NavigationError(url, retries)
    /\ gpc' = "raised"
    /\ UNCHANGED <<calls, url, retries, delay, attempt, gotos, routes, sleeps>>
    /\ UNCHANGED <<filterVars, loadVars, worksVars, walkVars>>

NextGoto ==
    \/ ForAttempt
    \/ RouteA
    \/ GotoA
    \/ RouteB
    \/ GotoB
    \/ SleepDelay
    \/ RaiseExhausted

-----------------------------------------------------------------------------
(***************************************************************************)
(* intercept_route(route)                                                  *)
(*                                                                         *)
(* A URL is a sequence of atomic pieces of text; `domain in req.url` is    *)
(* the test that the pieces of the domain occur contiguously in the URL.   *)
(***************************************************************************)

\* Longest URL explored, in pieces.
MaxUrlLen == 3

UrlPieces == {"google-analytics", "doubleclick", "facebook", ".com", ".net", "wikiart"}

ResourceTypes ==
    {"document", "script", "xhr", "image", "stylesheet", "font", "media"}

AllUrls == UNION {[1..n -> UrlPieces] : n \in 0..MaxUrlLen}

Requests == [resource_type : ResourceTypes, url : AllUrls]

\* The attribute read that raises for an event: route.request,
\* req.resource_type or req.url; "none" when every read succeeds.
Faults == {"none", "request", "resource_type", "url"}

blocked_types == {"image", "stylesheet", "font", "media"}

blocked_domains ==
    << <<"google-analytics", ".com">>,
       <<"doubleclick", ".net">>,
       <<"facebook", ".com">> >>

\* Python's `d in u` on strings: d occurs in u at some offset.
Contains(u, d) ==
    \E k \in 0..(Len(u) - Len(d)) :
        \A j \in 1..Len(d) : u[k + j] = d[j]

\* any(domain in req.url for domain in blocked_domains)
AnyBlockedDomain(u) ==
    \E n \in 1..Len(blocked_domains) : Contains(u, blocked_domains[n])

\* mutant: the domain test is dropped
ShouldAbort_TypesOnly(rt, u) == rt \in blocked_types

\* the condition of lines 19-22
ShouldAbort(rt, u) == rt \in blocked_types \/ AnyBlockedDomain(u)

\* mutant: the else is missing, route.continue_() follows route.abort()
Resolutions_NoElse(abort) ==
    IF abort THEN <<"abort", "continue">> ELSE <<"continue">>

\* lines 23-25: `await route.abort()` else `await route.continue_()`
Resolutions(abort) == IF abort THEN <<"abort">> ELSE <<"continue">>

\* The condition reads req.url only when the `or` does not short-circuit.
ReadsUrl(rt) == rt \notin blocked_types

InitFilter ==
    /\ route \in Requests
    /\ fault \in Faults
    /\ fpc = "request"
    /\ resolved = <<>>
    /\ ferr = "none"
    /\ tasks = 0

IdleFilter ==
    /\ route = [resource_type |-> "document", url |-> <<>>]
    /\ fault = "none"
    /\ fpc = "idle"
    /\ resolved = <<>>
    /\ ferr = "none"
    /\ tasks = 0

\* line 13: req = route.request
ReadRequest ==
    /\ fpc = "request"
    /\ IF fault = "request"
         THEN fpc' = "failed" /\ ferr' = "request"
         ELSE fpc' = "resource_type" /\ ferr' = ferr
    /\ UNCHANGED <<route, fault, resolved, tasks>>
    /\ UNCHANGED <<gotoVars, loadVars, worksVars, walkVars>>

\* line 14: resource_type = req.resource_type
ReadResourceType ==
    /\ fpc = "resource_type"
    /\ IF fault = "resource_type"
         THEN fpc' = "failed" /\ ferr' = "resource_type"
         ELSE fpc' = "decide" /\ ferr' = ferr
    /\ UNCHANGED <<route, fault, resolved, tasks>>
    /\ UNCHANGED <<gotoVars, loadVars, worksVars, walkVars>>

\* lines 19-25: evaluate the condition, then route.abort() or
\* route.continue_().  No handler surrounds the body: an exception raised
\* while evaluating the condition leaves the task without resolving.
Decide ==
    /\ fpc = "decide"
    /\ IF fault = "url" /\ ReadsUrl(route.resource_type)
         THEN /\ fpc' = "failed"
              /\ ferr' = "url"
              /\ resolved' = resolved
         ELSE /\ fpc' = "done"
              /\ ferr' = ferr
              /\ resolved' = resolved \o
                    Resolutions(ShouldAbort(route.resource_type, route.url))
    /\ UNCHANGED <<route, fault, tasks>>
    /\ UNCHANGED <<gotoVars, loadVars, worksVars, walkVars>>

NextFilter ==
    \/ ReadRequest
    \/ ReadResourceType
    \/ Decide

-----------------------------------------------------------------------------
(***************************************************************************)
(* load_all_artworks(page)                                                 *)
(*                                                                         *)
(* The page is the environment.  The load-more control is in the document  *)
(* while life # 0; each successful click uses up one life, and a control   *)
(* with life Forever is back after every click.  visMode fixes what        *)
(* is_visible answers: always true, true only once the viewport has been   *)
(* scrolled in the iteration, or never true.  Any awaited call may raise   *)
(* an Exception, and a click may raise whatever the state of the control.  *)
(* Cancellation (asyncio.CancelledError, not an Exception) is not          *)
(* modelled: nothing in the program cancels a task.                        *)
(***************************************************************************)

\* for i in range(30)
max_iterations == 30

\* Largest small life explored; lives around the cap are explored too.
MaxLife == 5

Forever == 0 - 1

LifeValues ==
    (0..MaxLife)
        \cup {max_iterations - 1, max_iterations, max_iterations + 1}
        \cup {Forever}

VisModes == {"visible", "after_scroll", "never"}

\* mutant: the loop runs one iteration more
HasNextIter_OneMore(k) == k + 1 <= max_iterations

\* for i in range(30): is there a next value after k?
HasNextIter(k) == k + 1 < max_iterations

\* mutant: the lookup result is not tested
AfterQuery_NoBreak(found) == "vis1"

\* lines 100-103: `if not button: break`
AfterQuery(found) == IF found THEN "vis1" ELSE "done"

\* lines 132-135: `if not still_exists: break`
AfterRequery(found) == IF found THEN "for" ELSE "done"

\* mutant: the re-check of line 112 is missing
AfterVisibleCheck_NoBreak(v) == "into_view"

\* mutant: no outer handler, the exception leaves the call
Caught_Propagates(step) ==
    /\ lpc' = "done"
    /\ lexc' = step
    /\ lret' = "raised"

\* page.query_selector("a.masonry-load-more-button") finds the control
ControlPresent(l) == l # 0

\* the first button.is_visible() of an iteration (line 105)
VisibleAtFirst(m) == m = "visible"

\* button.is_visible() after the scroll of line 108 (line 110)
VisibleAfterScroll(m) == m # "never"

\* mutant: the test of line 112 is inverted
AfterVisibleCheck_Inverted(v) == IF v THEN "done" ELSE "into_view"

\* lines 112-117: `if not visible: break`, else scroll into view
AfterVisibleCheck(v) == IF v THEN "into_view" ELSE "done"

\* mutant: a failed click ends the loop
AfterClickFail_Break == "done"

\* lines 121-124: the handler of a failed click sleeps and continues
AfterClickFail == "click_sleep"

\* a successful click loads one more batch
AfterClick(l) == IF l > 0 THEN l - 1 ELSE l

InitLoad ==
    /\ life0 \in LifeValues
    /\ life = life0
    /\ visMode \in VisModes
    /\ lpc = "for"
    /\ i = 0 - 1
    /\ visible = FALSE
    /\ clicks = 0
    /\ clickFails = 0
    /\ scrolls = 0
    /\ lastWait = 0
    /\ lexc = "none"
    /\ lret = "running"

IdleLoad ==
    /\ life0 = 0
    /\ life = 0
    /\ visMode = "visible"
    /\ lpc = "idle"
    /\ i = 0 - 1
    /\ visible = FALSE
    /\ clicks = 0
    /\ clickFails = 0
    /\ scrolls = 0
    /\ lastWait = 0
    /\ lexc = "none"
    /\ lret = "running"

\* lines 137-138: the outer handler logs the exception; the call returns
Caught(step) ==
    /\ lpc' = "done"
    /\ lexc' = step
    /\ lret' = "returned"

\* a break, or the end of the for loop: the call returns
Leave ==
    /\ lpc' = "done"
    /\ lexc' = lexc
    /\ lret' = "returned"

Goto(pc) ==
    /\ lpc' = pc
    /\ lexc' = lexc
    /\ lret' = lret

\* continue at pc; "done" is a break
Branch(pc) == IF pc = "done" THEN Leave ELSE Goto(pc)

\* line 99: the for statement takes the next i or the loop ends
ForIter ==
    /\ lpc = "for"
    /\ IF HasNextIter(i)
         THEN i' = i + 1 /\ Goto("query")
         ELSE i' = i /\ Leave
    /\ UNCHANGED <<life0, life, visMode, visible, clicks, clickFails,
                   scrolls, lastWait>>
    /\ UNCHANGED <<filterVars, gotoVars, worksVars, walkVars>>

\* lines 100-103: look the control up; absent means break
Query ==
    /\ lpc = "query"
    /\ \/ Caught("query_selector")
       \/ Branch(AfterQuery(ControlPresent(life)))
    /\ UNCHANGED <<life0, life, visMode, i, visible, clicks, clickFails,
                   scrolls, lastWait>>
    /\ UNCHANGED <<filterVars, gotoVars, worksVars, walkVars>>

\* lines 105-106 (and 112-114 when the scroll of 108 is skipped)
Vis1 ==
    /\ lpc = "vis1"
    /\ \/ Caught("is_visible") /\ visible' = visible
       \/ /\ visible' = VisibleAtFirst(visMode)
          /\ IF visible'
               THEN Branch(AfterVisibleCheck(visible'))
               ELSE Goto("scroll1")
    /\ UNCHANGED <<life0, life, visMode, i, clicks, clickFails, scrolls,
                   lastWait>>
    /\ UNCHANGED <<filterVars, gotoVars, worksVars, walkVars>>

\* line 108: page.evaluate("window.scrollBy(0, document.body.scrollHeight)")
Scroll1 ==
    /\ lpc = "scroll1"
    /\ \/ Caught("evaluate") /\ scrolls' = scrolls
       \/ scrolls' = scrolls + 1 /\ Goto("sleep1")
    /\ UNCHANGED <<life0, life, visMode, i, visible, clicks, clickFails,
                   lastWait>>
    /\ UNCHANGED <<filterVars, gotoVars, worksVars, walkVars>>

\* line 109: asyncio.sleep(1)
Sleep1 ==
    /\ lpc = "sleep1"
    /\ \/ Caught("sleep") /\ lastWait' = lastWait
       \/ lastWait' = 10 /\ Goto("vis2")
    /\ UNCHANGED <<life0, life, visMode, i, visible, clicks, clickFails,
                   scrolls>>
    /\ UNCHANGED <<filterVars, gotoVars, worksVars, walkVars>>

\* lines 110-114: re-check visibility; still not visible means break
Vis2 ==
    /\ lpc = "vis2"
    /\ \/ Caught("is_visible") /\ visible' = visible
       \/ /\ visible' = VisibleAfterScroll(visMode)
          /\ Branch(AfterVisibleCheck(visible'))
    /\ UNCHANGED <<life0, life, visMode, i, clicks, clickFails, scrolls,
                   lastWait>>
    /\ UNCHANGED <<filterVars, gotoVars, worksVars, walkVars>>

\* line 117: button.scroll_into_view_if_needed()
IntoView ==
    /\ lpc = "into_view"
    /\ \/ Caught("scroll_into_view_if_needed")
       \/ Goto("click")
    /\ UNCHANGED <<life0, life, visMode, i, visible, clicks, clickFails,
                   scrolls, lastWait>>
    /\ UNCHANGED <<filterVars, gotoVars, worksVars, walkVars>>

\* lines 119-122: button.click(timeout=10000) inside its own try
Click ==
    /\ lpc = "click"
    /\ clicks' = clicks + 1
    /\ \/ /\ life' = AfterClick(life)
          /\ clickFails' = clickFails
          /\ Goto("settle1")
       \/ /\ life' = life
          /\ clickFails' = clickFails + 1
          /\ Branch(AfterClickFail)
    /\ UNCHANGED <<life0, visMode, i, visible, scrolls, lastWait>>
    /\ UNCHANGED <<filterVars, gotoVars, worksVars, walkVars>>

\* lines 123-124: asyncio.sleep(2); continue
ClickSleep ==
    /\ lpc = "click_sleep"
    /\ \/ Caught("sleep") /\ lastWait' = lastWait
       \/ lastWait' = 20 /\ Goto("for")
    /\ UNCHANGED <<life0, life, visMode, i, visible, clicks, clickFails,
                   scrolls>>
    /\ UNCHANGED <<filterVars, gotoVars, worksVars, walkVars>>

\* line 127: asyncio.sleep(2.5)
Settle1 ==
    /\ lpc = "settle1"
    /\ \/ Caught("sleep") /\ lastWait' = lastWait
       \/ lastWait' = 25 /\ Goto("scroll2")
    /\ UNCHANGED <<life0, life, visMode, i, visible, clicks, clickFails,
                   scrolls>>
    /\ UNCHANGED <<filterVars, gotoVars, worksVars, walkVars>>

\* line 128: page.evaluate("window.scrollBy(0, document.body.scrollHeight)")
Scroll2 ==
    /\ lpc = "scroll2"
    /\ \/ Caught("evaluate") /\ scrolls' = scrolls
       \/ scrolls' = scrolls + 1 /\ Goto("settle2")
    /\ UNCHANGED <<life0, life, visMode, i, visible, clicks, clickFails,
                   lastWait>>
    /\ UNCHANGED <<filterVars, gotoVars, worksVars, walkVars>>

\* line 129: asyncio.sleep(0.5)
Settle2 ==
    /\ lpc = "settle2"
    /\ \/ Caught("sleep") /\ lastWait' = lastWait
       \/ lastWait' = 5 /\ Goto("requery")
    /\ UNCHANGED <<life0, life, visMode, i, visible, clicks, clickFails,
                   scrolls>>
    /\ UNCHANGED <<filterVars, gotoVars, worksVars, walkVars>>

\* lines 132-135: look the control up again; absent means break
Requery ==
    /\ lpc = "requery"
    /\ \/ Caught("query_selector")
       \/ Branch(AfterRequery(ControlPresent(life)))
    /\ UNCHANGED <<life0, life, visMode, i, visible, clicks, clickFails,
                   scrolls, lastWait>>
    /\ UNCHANGED <<filterVars, gotoVars, worksVars, walkVars>>

NextLoad ==
    \/ ForIter
    \/ Query
    \/ Vis1
    \/ Scroll1
    \/ Sleep1
    \/ Vis2
    \/ IntoView
    \/ Click
    \/ ClickSleep
    \/ Settle1
    \/ Scroll2
    \/ Settle2
    \/ Requery

-----------------------------------------------------------------------------
(***************************************************************************)
(* get_works_for_artist(browser, artist), src/main.py: the list it         *)
(* returns.                                                                *)
(*                                                                         *)
(* An href is a sequence of pieces of text, <<>> the empty string and      *)
(* <<"None">> Python's None (the attribute is missing).  Everything before *)
(* the extraction loop (navigation, load_all_artworks, the choice of the   *)
(* selector) either raises or yields the list of visible anchors.          *)
(***************************************************************************)

\* Largest number of anchors explored.
MaxNodes == 3

\* BASE_URL = "https://www.wikiart.org"
BASE_URL == <<"http", "s://www.wikiart.org">>

NoneHref == <<"None">>

Hrefs ==
    { <<>>, NoneHref,
      <<"javascript:", "void(0)">>,
      <<"#", "top">>,
      <<"/en/a">>, <<"/en/b">>,
      <<"http", "s://www.wikiart.org", "/en/a">> }

NodeLists == UNION {[1..n -> Hrefs] : n \in 0..MaxNodes}

\* str.startswith on a value that is a string
StartsWith(h, piece) == Len(h) >= 1 /\ h[1] = piece

\* `not href`: None or the empty string
Falsy(h) == h = NoneHref \/ h = <<>>

\* urljoin(BASE_URL, href) for an href that is a path from the root
UrlJoin(base, h) == base \o h

\* line 179: the anchors that are passed over
SkipHref(h) ==
    Falsy(h) \/ StartsWith(h, "javascript:") \/ StartsWith(h, "#")

\* line 182
FullUrl(h) == IF StartsWith(h, "http") THEN h ELSE UrlJoin(BASE_URL, h)

\* mutant: seen_urls is keyed by the href as written
SeenKey_Href(h) == h

\* lines 183-185: the key looked up in and added to seen_urls
SeenKey(h) == FullUrl(h)

\* Where the body of the loop raises for an anchor: nowhere, at
\* get_attribute("href") (line 178), or after seen_urls.add (lines 188-209).
NodeFaults == {"none", "href", "details"}

InitWorks ==
    /\ nodes \in NodeLists
    /\ idx = 0
    /\ seen_urls = {}
    /\ art_works = <<>>
    /\ wkpc = "navigate"
    /\ wkret = "none"

IdleWorks ==
    /\ nodes = <<>>
    /\ idx = 0
    /\ seen_urls = {}
    /\ art_works = <<>>
    /\ wkpc = "idle"
    /\ wkret = "none"

\* lines 115-169: navigate, expand, scroll, query the selectors.  An
\* exception goes to the handler of line 226, which returns art_works.
Prepare ==
    /\ wkpc = "navigate"
    /\ \/ wkpc' = "returned" /\ wkret' = "228"
       \/ wkpc' = "select" /\ wkret' = wkret
    /\ UNCHANGED <<nodes, idx, seen_urls, art_works>>
    /\ UNCHANGED <<filterVars, gotoVars, loadVars, walkVars>>

\* lines 171-175: `if not nodes: return art_works`
SelectNodes ==
    /\ wkpc = "select"
    /\ IF nodes = <<>>
         THEN wkpc' = "returned" /\ wkret' = "173"
         ELSE wkpc' = "loop" /\ wkret' = wkret
    /\ UNCHANGED <<nodes, idx, seen_urls, art_works>>
    /\ UNCHANGED <<filterVars, gotoVars, loadVars, walkVars>>

\* lines 176-221: one pass of `for a in nodes`, inside its own try/except
ExtractNode ==
    /\ wkpc = "loop"
    /\ idx < Len(nodes)
    /\ idx' = idx + 1
    /\ \E f \in NodeFaults :
         LET href == nodes[idx + 1]
             key  == SeenKey(href)
         IN  IF f = "href" \/ SkipHref(href) \/ key \in seen_urls
               THEN seen_urls' = seen_urls /\ art_works' = art_works
               ELSE /\ seen_urls' = seen_urls \cup {key}
                    /\ art_works' =
                          IF f = "details" THEN art_works
                          ELSE Append(art_works,
                                  [url |-> FullUrl(href), link |-> href])
    /\ UNCHANGED <<nodes, wkpc, wkret>>
    /\ UNCHANGED <<filterVars, gotoVars, loadVars, walkVars>>

\* lines 223-224: return art_works
ReturnWorks ==
    /\ wkpc = "loop"
    /\ idx = Len(nodes)
    /\ wkpc' = "returned"
    /\ wkret' = "224"
    /\ UNCHANGED <<nodes, idx, seen_urls, art_works>>
    /\ UNCHANGED <<filterVars, gotoVars, loadVars, walkVars>>

NextWorks ==
    \/ Prepare
    \/ SelectNodes
    \/ ExtractNode
    \/ ReturnWorks

-----------------------------------------------------------------------------
(***************************************************************************)
(* A page under navigation: safe_goto together with the filter it          *)
(* installs.                                                               *)
(*                                                                         *)
(* While a goto is awaited the page may issue a request.  The driver hands *)
(* it to the handler installed by page.route, the lambda of lines 32 and   *)
(* 39, which creates a task running intercept_route and returns at once:   *)
(* nothing awaits the task, so its steps interleave freely with those of   *)
(* safe_goto.  One request is followed per behaviour.  A caller may make   *)
(* several safe_goto calls on one page (src/main.py lines 117, 128, 138);  *)
(* the handlers installed by earlier calls stay on the page.               *)
(***************************************************************************)

\* Largest number of safe_goto calls made on one page.
MaxCalls == 2

\* Requests for subresources, which domcontentloaded does not wait for.
NavRequests ==
    { [resource_type |-> "image", url |-> <<"wikiart">>],
      [resource_type |-> "xhr", url |-> <<"google-analytics", ".com">>],
      [resource_type |-> "xhr", url |-> <<"wikiart">>] }

\* The driver runs the handlers matching a request in the order opposite
\* to their registration, and a handler that aborts or continues the route
\* ends the chain (only route.fallback() passes it on): of n handlers
\* installed with the same pattern, the last installed is the one called.
HandlersInvoked(n) == IF n >= 1 THEN 1 ELSE 0

InitNav ==
    /\ InitGoto
    /\ IdleFilter

\* the page issues a request during a goto; the lambda creates the task
IssueRequest ==
    /\ gpc \in {"gotoA", "gotoB"}
    /\ fpc = "idle"
    /\ tasks = 0
    /\ route' \in NavRequests
    /\ fault' \in Faults
    /\ tasks' = HandlersInvoked(routes)
    /\ UNCHANGED <<fpc, resolved, ferr>>
    /\ UNCHANGED <<gotoVars, loadVars, worksVars, walkVars>>

\* the event loop starts a task created by the lambda
StartTask ==
    /\ tasks > 0
    /\ fpc \in {"idle", "done", "failed"}
    /\ fpc' = "request"
    /\ tasks' = tasks - 1
    /\ UNCHANGED <<route, fault, resolved, ferr>>
    /\ UNCHANGED <<gotoVars, loadVars, worksVars, walkVars>>

\* the caller navigates the same page again
CallAgain ==
    /\ gpc = "returned"
    /\ calls < MaxCalls
    /\ calls' = calls + 1
    /\ url' \in Urls
    /\ gpc' = "for"
    /\ attempt' = 0
    /\ gotos' = <<>>
    /\ sleeps' = <<>>
    /\ UNCHANGED <<retries, delay, routes, gerr>>
    /\ UNCHANGED <<filterVars, loadVars, worksVars, walkVars>>

NextNav ==
    \/ ForAttempt
    \/ RouteA
    \/ GotoA
    \/ RouteB
    \/ GotoB
    \/ SleepDelay
    \/ RaiseExhausted
    \/ IssueRequest
    \/ StartTask
    \/ ReadRequest
    \/ ReadResourceType
    \/ Decide
    \/ CallAgain

-----------------------------------------------------------------------------
(***************************************************************************)
(* main(movement, export), src/main.py, and the four steps it calls:       *)
(* get_art_movements, get_artists_for_movement, get_works_for_artist and   *)
(* get_location.  Each step opens a page, navigates it with safe_goto,     *)
(* works on it and returns a list (get_location a string).  safe_goto      *)
(* either returns or raises its RuntimeError; the work on the page (waits, *)
(* queries) either yields the list or raises.                              *)
(***************************************************************************)

\* Longest list a step returns.
MaxItems == 2

Steps == {"movements", "artists", "works", "location"}

\* The step closes its page in a finally clause (lines 104-105, 229-230,
\* 245-246); get_art_movements has no try: its page.close() is line 65.
ClosesOnError(st) == st # "movements"

\* The step has a handler that swallows the exception (lines 226-228 and
\* 243-244); get_artists_for_movement has try/finally only.
Swallows(st) == st \in {"works", "location"}

\* what leaves the handlers of the step when e is raised inside it
Propagated(st, e) == IF Swallows(st) THEN "none" ELSE e

\* where the step goes when an exception is raised inside it
AfterRaise(st) == IF ClosesOnError(st) THEN "close" ELSE "raise"

\* get_works_for_artist navigates again while it works on the page (lines
\* 128 and 138); the other steps only wait and query.
BodyFaults(st) ==
    IF st = "works" THEN {"RuntimeError", "Error"} ELSE {"Error"}

InitWalk ==
    /\ mainpc = "start"
    /\ stepFn = "none"
    /\ spc = "main"
    /\ pages = 0
    /\ pending = "none"
    /\ navFailed = {}
    /\ result = 0
    /\ mvLeft = 0
    /\ arLeft = 0
    /\ wkLeft = 0

IdleWalk ==
    /\ mainpc = "idle"
    /\ stepFn = "none"
    /\ spc = "main"
    /\ pages = 0
    /\ pending = "none"
    /\ navFailed = {}
    /\ result = 0
    /\ mvLeft = 0
    /\ arLeft = 0
    /\ wkLeft = 0

\* line 286: movements = await get_art_movements(browser, ...)
MainStart ==
    /\ mainpc = "start"
    /\ mainpc' = "loop"
    /\ stepFn' = "movements"
    /\ spc' = "new_page"
    /\ UNCHANGED <<pages, pending, navFailed, result, mvLeft, arLeft, wkLeft>>
    /\ UNCHANGED <<filterVars, gotoVars, loadVars, worksVars>>

\* lines 18, 72, 110, 236: page = await browser.new_page()
NewPage ==
    /\ spc = "new_page"
    /\ pages' = pages + 1
    /\ spc' = "goto"
    /\ UNCHANGED <<mainpc, stepFn, pending, navFailed, result, mvLeft, arLeft,
                   wkLeft>>
    /\ UNCHANGED <<filterVars, gotoVars, loadVars, worksVars>>

\* lines 20, 74, 117, 238: await safe_goto(page, ...)
Navigate ==
    /\ spc = "goto"
    /\ \/ /\ spc' = "body"
          /\ UNCHANGED <<pending, navFailed, result>>
       \/ /\ navFailed' = navFailed \cup {stepFn}
          /\ pending' = Propagated(stepFn, "RuntimeError")
          /\ result' = 0
          /\ spc' = AfterRaise(stepFn)
    /\ UNCHANGED <<mainpc, stepFn, pages, mvLeft, arLeft, wkLeft>>
    /\ UNCHANGED <<filterVars, gotoVars, loadVars, worksVars>>

\* lines 21-63, 75-103, 118-224, 239-242: the work on the settled page
Body ==
    /\ spc = "body"
    /\ \/ /\ result' \in 0..MaxItems
          /\ spc' = "close"
          /\ UNCHANGED <<pending, navFailed>>
       \/ \E e \in BodyFaults(stepFn) :
            /\ navFailed' =
                  IF e = "RuntimeError" THEN navFailed \cup {stepFn}
                  ELSE navFailed
            /\ pending' = Propagated(stepFn, e)
            /\ result' = 0
            /\ spc' = AfterRaise(stepFn)
    /\ UNCHANGED <<mainpc, stepFn, pages, mvLeft, arLeft, wkLeft>>
    /\ UNCHANGED <<filterVars, gotoVars, loadVars, worksVars>>

\* lines 65, 105, 230, 246: await page.close()
ClosePage ==
    /\ spc = "close"
    /\ pages' = pages - 1
    /\ spc' = IF pending = "none" THEN "return" ELSE "raise"
    /\ UNCHANGED <<mainpc, stepFn, pending, navFailed, result, mvLeft, arLeft,
                   wkLeft>>
    /\ UNCHANGED <<filterVars, gotoVars, loadVars, worksVars>>

\* lines 67, 103, 173/224/228, 242/247: the step returns to main, which
\* takes the value (lines 286, 290, 293, 295)
StepReturn ==
    /\ spc = "return"
    /\ stepFn' = "none"
    /\ spc' = "main"
    /\ mvLeft' = IF stepFn = "movements" THEN result ELSE mvLeft
    /\ arLeft' = IF stepFn = "artists" THEN result ELSE arLeft
    /\ wkLeft' = IF stepFn = "works" THEN result ELSE wkLeft
    /\ UNCHANGED <<mainpc, pages, pending, navFailed, result>>
    /\ UNCHANGED <<filterVars, gotoVars, loadVars, worksVars>>

\* The exception leaves the step.  No statement of main (lines 286-296) is
\* inside a try: the exception leaves main too, and the run ends.
StepRaise ==
    /\ spc = "raise"
    /\ stepFn' = "none"
    /\ spc' = "main"
    /\ mainpc' = "crashed"
    /\ UNCHANGED <<pages, pending, navFailed, result, mvLeft, arLeft, wkLeft>>
    /\ UNCHANGED <<filterVars, gotoVars, loadVars, worksVars>>

\* lines 289-296: the three nested for loops take their next item, the
\* innermost first; lines 298-308 end the run
MainLoop ==
    /\ mainpc = "loop"
    /\ stepFn = "none"
    /\ IF wkLeft > 0
         THEN /\ wkLeft' = wkLeft - 1
              /\ stepFn' = "location"
              /\ spc' = "new_page"
              /\ UNCHANGED <<mainpc, arLeft, mvLeft>>
         ELSE IF arLeft > 0
         THEN /\ arLeft' = arLeft - 1
              /\ stepFn' = "works"
              /\ spc' = "new_page"
              /\ UNCHANGED <<mainpc, wkLeft, mvLeft>>
         ELSE IF mvLeft > 0
         THEN /\ mvLeft' = mvLeft - 1
              /\ stepFn' = "artists"
              /\ spc' = "new_page"
              /\ UNCHANGED <<mainpc, wkLeft, arLeft>>
         ELSE /\ mainpc' = "finished"
              /\ UNCHANGED <<stepFn, spc, wkLeft, arLeft, mvLeft>>
    /\ UNCHANGED <<pages, pending, navFailed, result>>
    /\ UNCHANGED <<filterVars, gotoVars, loadVars, worksVars>>

NextWalk ==
    \/ MainStart
    \/ NewPage
    \/ Navigate
    \/ Body
    \/ ClosePage
    \/ StepReturn
    \/ StepRaise
    \/ MainLoop

-----------------------------------------------------------------------------
(***************************************************************************)
(* Specifications: one per coroutine, the others idle.                     *)
(***************************************************************************)

InitF == InitFilter /\ IdleGoto /\ IdleLoad /\ IdleWorks /\ IdleWalk

SpecFilter == InitF /\ [][NextFilter]_vars

InitG == IdleFilter /\ InitGoto /\ IdleLoad /\ IdleWorks /\ IdleWalk

SpecGoto == InitG /\ [][NextGoto]_vars

InitL == IdleFilter /\ IdleGoto /\ InitLoad /\ IdleWorks /\ IdleWalk

SpecLoad == InitL /\ [][NextLoad]_vars

InitN == InitNav /\ IdleLoad /\ IdleWorks /\ IdleWalk

SpecNav == InitN /\ [][NextNav]_vars

InitM == IdleFilter /\ IdleGoto /\ IdleLoad /\ IdleWorks /\ InitWalk

SpecWalk == InitM /\ [][NextWalk]_vars

InitW == IdleFilter /\ IdleGoto /\ IdleLoad /\ InitWorks /\ IdleWalk

SpecWorks == InitW /\ [][NextWorks]_vars

\* The event loop resumes a coroutine whose awaited call has completed, and
\* every awaited call of load_all_artworks is bounded by a timeout.
FairSpecLoad == SpecLoad /\ WF_vars(NextLoad)

-----------------------------------------------------------------------------
(***************************************************************************)
(* Properties of intercept_route, checked under SpecFilter.                *)
(***************************************************************************)

\* d occurs in u: u is some text, then d, then some text
Occurs(d, u) ==
    \E a \in 0..Len(u) : \E b \in a..Len(u) : SubSeq(u, a + 1, b) = d

\* C1: a request whose classification completes is resolved with abort if
\* and only if its resource type is image, stylesheet, font or media, or
\* its URL contains google-analytics.com, doubleclick.net or facebook.com
\* (whatever its resource type); otherwise it is resolved with continue.
C1_AbortIffBlocked ==
    fpc = "done" =>
        LET typeBlocked ==
                route.resource_type \in {"image", "stylesheet", "font", "media"}
            urlBlocked ==
                \/ Occurs(<<"google-analytics", ".com">>, route.url)
                \/ Occurs(<<"doubleclick", ".net">>, route.url)
                \/ Occurs(<<"facebook", ".com">>, route.url)
        IN  resolved = << IF typeBlocked \/ urlBlocked
                            THEN "abort" ELSE "continue" >>

\* a script served from a blocked domain in the middle of the URL is aborted
C1_Witness ==
    /\ fpc = "done"
    /\ resolved = <<"abort">>
    /\ route.resource_type = "script"
    /\ route.url = <<"wikiart", "doubleclick", ".net">>

\* C2: every event handed to the filter is resolved exactly once, also when
\* reading the request, its resource type or its URL raises; in that case
\* it is resolved with continue.
C2_ResolvedExactlyOnce ==
    fpc \in {"done", "failed"} =>
        /\ Len(resolved) = 1
        /\ (fpc = "failed" => resolved = <<"continue">>)

-----------------------------------------------------------------------------
(***************************************************************************)
(* Properties of safe_goto, checked under SpecGoto.                        *)
(***************************************************************************)

Failed(g) == g.outcome \in {"timeout", "transport"}

\* the number of attempts a budget of r allows
Budget(r) == IF r > 0 THEN r ELSE 0

\* C3: when every goto fails (by timeout or by transport error alike) the
\* call makes exactly `retries` attempts (none for a budget below 1), each
\* one domcontentloaded goto followed by one networkidle goto, and then
\* raises the error carrying url and retries; it raises nothing else, and
\* it never returns.
C3_ExhaustsBudget ==
    /\ gpc = "raised" =>
          /\ gerr = [type |-> "RuntimeError", url |-> url, retries |-> retries]
          /\ Len(gotos) = 2 * Budget(retries)
          /\ \A k \in 1..Budget(retries) :
                /\ gotos[2 * k - 1].cond = "domcontentloaded"
                /\ gotos[2 * k - 1].attempt = k
                /\ Failed(gotos[2 * k - 1])
                /\ gotos[2 * k].cond = "networkidle"
                /\ gotos[2 * k].attempt = k
                /\ Failed(gotos[2 * k])
    /\ gpc # "raised" => gerr.type = "none"
    /\ gpc = "returned" => \E k \in 1..Len(gotos) : gotos[k].outcome = "ok"
    /\ (gpc = "raise" /\ \A k \in 1..Len(gotos) : Failed(gotos[k])) =>
          Len(gotos) = 2 * Budget(retries)

\* the full budget of three was spent on timeouts and transport errors
C3_Witness ==
    /\ gpc = "raised"
    /\ retries = 3
    /\ Len(gotos) = 6
    /\ gotos[1].outcome = "timeout"
    /\ gotos[2].outcome = "transport"

\* C4: when the domcontentloaded goto fails and the networkidle goto of the
\* first attempt settles, the call returns in that attempt: one goto of
\* each kind, no sleep, no second attempt.
C4_SecondTierSucceeds ==
    /\ Len(gotos) >= 1 =>
          gotos[1].cond = "domcontentloaded" /\ gotos[1].attempt = 1
    /\ (Len(gotos) >= 2 /\ Failed(gotos[1])) =>
          gotos[2].cond = "networkidle" /\ gotos[2].attempt = 1
    /\ (Len(gotos) >= 2 /\ Failed(gotos[1]) /\ gotos[2].outcome = "ok") =>
          /\ gpc = "returned"
          /\ Len(gotos) = 2
          /\ attempt = 1
          /\ sleeps = <<>>
          /\ gerr.type = "none"

C4_Witness ==
    /\ gpc = "returned"
    /\ retries = 3
    /\ Len(gotos) = 2
    /\ gotos[1].outcome = "timeout"
    /\ gotos[2].outcome = "ok"

\* the attempts in which both gotos have failed
FullyFailed ==
    {gotos[k].attempt : k \in {n \in 1..Len(gotos) :
        gotos[n].cond = "networkidle" /\ Failed(gotos[n])}}

\* C5: the call sleeps `delay` after a fully failed attempt i exactly when
\* i < retries: a call that returns on attempt k has made k attempts and
\* k - 1 sleeps, and a call that exhausts a budget of at least one attempt
\* has made retries - 1 sleeps.
C5_SleepsBetweenAttempts ==
    /\ \A k \in 1..Len(sleeps) : sleeps[k] = delay
    /\ Len(sleeps) + (IF gpc = "sleep" THEN 1 ELSE 0)
          = Cardinality({a \in FullyFailed : a < retries})
    /\ gpc = "returned" =>
          /\ gotos[Len(gotos)].attempt = attempt
          /\ Len(sleeps) = attempt - 1
    /\ (gpc = "raised" /\ retries >= 1) =>
          /\ attempt = retries
          /\ Len(sleeps) = retries - 1

\* networkidle settles on the second attempt: two attempts, one sleep
C5_Witness ==
    /\ gpc = "returned"
    /\ attempt = 2
    /\ Len(gotos) = 4
    /\ gotos[4].cond = "networkidle"
    /\ sleeps = <<2>>

\* C6: the timeouts are base_A * i for domcontentloaded and base_B * i for
\* networkidle, with base_B different from base_A.
C6_IndependentBases ==
    /\ \A k \in 1..Len(gotos) : gotos[k].timeout % gotos[k].attempt = 0
    /\ \A j, k \in 1..Len(gotos) :
          (gotos[j].cond = "domcontentloaded" /\ gotos[k].cond = "networkidle")
             => (gotos[j].timeout \div gotos[j].attempt)
                    # (gotos[k].timeout \div gotos[k].attempt)

\* C7: from one attempt to the next the domcontentloaded timeout never
\* decreases, and neither does the networkidle timeout.
C7_TimeoutsNeverDecrease ==
    \A j, k \in 1..Len(gotos) :
        (j < k /\ gotos[j].cond = gotos[k].cond) =>
            /\ gotos[j].attempt < gotos[k].attempt
            /\ gotos[j].timeout <= gotos[k].timeout

\* three attempts were made and both timeouts grew from each to the next
C7_Witness ==
    /\ Len(gotos) = 6
    /\ gotos[1].timeout < gotos[3].timeout
    /\ gotos[3].timeout < gotos[5].timeout
    /\ gotos[2].timeout < gotos[4].timeout
    /\ gotos[4].timeout < gotos[6].timeout

-----------------------------------------------------------------------------
(***************************************************************************)
(* Properties of load_all_artworks, checked under SpecLoad (C8 under       *)
(* FairSpecLoad).                                                          *)
(***************************************************************************)

\* C8: the call always terminates, and it never issues more than
\* max_iterations clicks, whatever the control does.
C8_TerminatesWithinCap ==
    <>(lpc = "done") /\ [](clicks <= max_iterations)

\* a control that is back after every click was clicked up to the cap
C8_Witness ==
    /\ lpc = "done"
    /\ life0 = Forever
    /\ clickFails = 0
    /\ clicks = max_iterations

\* C9: when the control is there and clickable for exactly n clicks, n
\* from 1 to the cap, and gone after the n-th, the call clicks exactly n
\* times and returns with no exception.
C9_ClicksUntilGone ==
    (/\ lpc = "done"
     /\ life0 \in 1..max_iterations
     /\ visMode # "never"
     /\ clickFails = 0
     /\ lexc = "none")
        => (clicks = life0 /\ life = 0 /\ lret = "returned")

C9_Witness ==
    /\ lpc = "done"
    /\ life0 = 5
    /\ clicks = 5
    /\ clickFails = 0
    /\ lexc = "none"
    /\ lret = "returned"

\* C10: a click that raises at iteration k does not end the loop: the call
\* sleeps two seconds and, when k + 1 is below the cap, goes on to look the
\* control up in iteration k + 1 (unless the sleep itself raises).
C10_ClickFailureContinues ==
    [][ /\ (lpc = "click" /\ clickFails' = clickFails + 1) =>
              (lpc' = "click_sleep" /\ lret' = "running" /\ i' = i)
        /\ (lpc = "click_sleep" /\ lexc' = "none") =>
              (lpc' = "for" /\ lastWait' = 20 /\ lret' = "running" /\ i' = i)
        /\ (lpc = "for" /\ lastWait = 20 /\ i + 1 < max_iterations) =>
              (lpc' = "query" /\ i' = i + 1 /\ lret' = "running") ]_vars

\* after a failed click in iteration 0 the control is looked up in iteration 1
C10_Witness ==
    /\ lpc = "query"
    /\ i = 1
    /\ clicks = 1
    /\ clickFails = 1
    /\ lastWait = 20

\* C11 as stated: an exception raised by any step of the loop body, the
\* click included, ends the loop, and the call returns normally.
C11_AnyExceptionEndsLoop ==
    /\ lret # "raised"
    /\ (lexc # "none" \/ clickFails > 0) => (lpc = "done" /\ lret = "returned")

\* C11, amended: no exception leaves the call.  An exception raised by the
\* lookup, a visibility check, a scroll, the scroll into view, a sleep or
\* the re-query ends the loop and the call returns normally; an exception
\* raised by the click does not end the loop.
C11_NeverPropagates ==
    /\ lret # "raised"
    /\ lexc # "none" => (lpc = "done" /\ lret = "returned")
    /\ lpc = "done" <=> lret = "returned"
    /\ lpc = "click_sleep" => (clickFails > 0 /\ lret = "running")

\* the sleep in the handler of a failed click raised: the outer handler
\* caught it and the call returned
C11_Witness ==
    /\ lpc = "done"
    /\ lret = "returned"
    /\ lexc = "sleep"
    /\ visMode = "visible"
    /\ clicks = 1
    /\ clickFails = 1
    /\ scrolls = 0

\* C12: when the control is absent at the first lookup the call ends at
\* once: no click, no scroll, no sleep, no second iteration.
C12_AbsentControlStops ==
    life0 = 0 =>
        /\ lpc \in {"for", "query", "done"}
        /\ i <= 0
        /\ clicks = 0
        /\ scrolls = 0
        /\ lastWait = 0
        /\ (lpc = "for" => i = 0 - 1)

C12_Witness ==
    /\ life0 = 0
    /\ lpc = "done"
    /\ lret = "returned"
    /\ lexc = "none"
    /\ i = 0

\* C13: when the control is there but never visible the call scrolls the
\* viewport once, re-checks visibility and ends without a click.
C13_InvisibleControlStops ==
    (visMode = "never" /\ life0 # 0) =>
        /\ i <= 0
        /\ clicks = 0
        /\ scrolls <= 1
        /\ lpc \in {"for", "query", "vis1", "scroll1", "sleep1", "vis2", "done"}
        /\ (lpc = "done" /\ lexc = "none") =>
              (scrolls = 1 /\ lastWait = 10 /\ visible = FALSE
                 /\ lret = "returned")

C13_Witness ==
    /\ visMode = "never"
    /\ life0 = Forever
    /\ lpc = "done"
    /\ lexc = "none"
    /\ scrolls = 1
    /\ clicks = 0

-----------------------------------------------------------------------------
(***************************************************************************)
(* Order of the calls of safe_goto, checked under SpecGoto.                *)
(***************************************************************************)

\* the k-th goto of a call: domcontentloaded for odd k, networkidle for even
ExpectedCond(k) == IF k % 2 = 1 THEN "domcontentloaded" ELSE "networkidle"

\* C18: the gotos of one call are made one after the other in the order
\* A(1), B(1), A(2), B(2), ...: each goto but the last has failed, every
\* goto is preceded by its own filter installation, and once a goto has
\* settled the call makes no further goto, installation or sleep.
C18_SequentialShortCircuit ==
    /\ [](/\ \A k \in 1..Len(gotos) :
               /\ gotos[k].cond = ExpectedCond(k)
               /\ gotos[k].attempt = (k + 1) \div 2
               /\ k < Len(gotos) => Failed(gotos[k])
          /\ routes = Len(gotos) + (IF gpc \in {"gotoA", "gotoB"} THEN 1 ELSE 0)
          /\ Len(sleeps) <= Len(gotos) \div 2
          /\ (Len(gotos) > 0 /\ gotos[Len(gotos)].outcome = "ok") =>
                gpc = "returned")
    /\ [][gpc = "returned" => UNCHANGED <<gotos, routes, sleeps, attempt, gpc>>]_vars

\* domcontentloaded settled on the second attempt, after three failed gotos
C18_Witness ==
    /\ gpc = "returned"
    /\ Len(gotos) = 3
    /\ gotos[3].cond = "domcontentloaded"
    /\ gotos[3].outcome = "ok"
    /\ routes = 3
    /\ Len(sleeps) = 1

\* C19: a call with retries <= 0 installs no filter, makes no goto and no
\* sleep, and raises the navigation error; and no call returns unless its
\* last goto settled.
C19_EmptyBudgetRaises ==
    /\ retries <= 0 =>
          /\ routes = 0
          /\ gotos = <<>>
          /\ sleeps = <<>>
          /\ attempt = 0
          /\ gpc \in {"for", "raise", "raised"}
          /\ (gpc = "raised" =>
                gerr = [type |-> "RuntimeError", url |-> url,
                        retries |-> retries])
    /\ gpc = "returned" =>
          (Len(gotos) > 0 /\ gotos[Len(gotos)].outcome = "ok")

C19_Witness ==
    /\ retries = 0 - 1
    /\ gpc = "raised"
    /\ gerr.type = "RuntimeError"
    /\ gotos = <<>>

-----------------------------------------------------------------------------
(***************************************************************************)
(* The list returned by get_works_for_artist, checked under SpecWorks.     *)
(***************************************************************************)

\* C20: the list get_works_for_artist returns never holds two entries with
\* the same work URL, whichever return statement is taken and whatever
\* raised during the extraction, and never an entry made from an empty or
\* missing link, a javascript: link or a fragment link.
C20_WorksAreDistinct ==
    /\ \A j, k \in 1..Len(art_works) :
          j # k => art_works[j].url # art_works[k].url
    /\ \A k \in 1..Len(art_works) :
          /\ art_works[k].link \notin {<<>>, <<"None">>}
          /\ art_works[k].link[1] \notin {"javascript:", "#"}
          /\ art_works[k].url[1] = "http"
    /\ wkret \in {"173", "228"} => art_works = <<>>

\* the same work linked by its path and by its full URL is listed once
C20_Witness ==
    /\ wkpc = "returned"
    /\ wkret = "224"
    /\ nodes = << <<"/en/a">>, <<"#", "top">>,
                  <<"http", "s://www.wikiart.org", "/en/a">> >>
    /\ Len(art_works) = 1
    /\ art_works[1].url = <<"http", "s://www.wikiart.org", "/en/a">>

-----------------------------------------------------------------------------
(***************************************************************************)
(* Properties of a page under navigation, checked under SpecNav.           *)
(***************************************************************************)

\* a request has been handed to the filter
Issued == tasks > 0 \/ fpc # "idle"

\* C16: when safe_goto has returned, every request handed to the filter
\* during the navigation has been resolved.
C16_ResolvedBeforeReturn ==
    (gpc = "returned" /\ Issued) => Len(resolved) >= 1

-----------------------------------------------------------------------------
(***************************************************************************)
(* Properties of main and its steps, checked under SpecWalk.               *)
(***************************************************************************)

\* C14: a step has closed the page it opened when it is left, by a return
\* or by an exception of the navigation or of a later wait.
C14_PagesClosedOnExit ==
    stepFn = "none" => pages = 0

\* C15: a navigation that exhausts its retries ends only the step that
\* asked for it: whichever step it happens in, main goes on and does not
\* end with the exception.
C15_RunSurvivesNavigationFailure ==
    navFailed # {} => mainpc # "crashed"

=============================================================================
